---- MODULE Spec2Model ----
(***************************************************************************)
(* State-machine model of library/firewall_lib.py: one invocation of       *)
(* main() (a "pass") reconciles the requested services, ports, trusted     *)
(* interfaces, masqueraded interfaces and forward ports against the        *)
(* runtime and the permanent layer of firewalld.                           *)
(*                                                                         *)
(* Python strings that the module parses (port and forward_port items,    *)
(* interface names) are sequences of one-character strings, so that        *)
(* str.split is computed and not assumed.  Zone and service names are      *)
(* never parsed and stay TLA+ strings.  Python's None for to_port/to_addr  *)
(* is the one-element sequence None, which no parse can produce.           *)
(***************************************************************************)
EXTENDS Integers, Sequences, FiniteSets, TLC

VARIABLES
    \* module.params (the DesiredState) and module.check_mode
    params,
    \* firewalld: zone lists, default zone, runtime layer, permanent layer
    rtZones, permZones, defaultZone, runtime, ifZone, permanent,
    \* NetworkManager side channel
    nm,
    \* locals of main()
    pc, idx, port, forward_port, zone, fw_settings, tmp_zone, tmp_settings,
    changed, changed_zones, objs, result, err,
    \* history of the calls of the current pass, and of the passes
    log, committed, passNo, passKind, snap0, snapP, result1, log1

vars == <<params, rtZones, permZones, defaultZone, runtime, ifZone, permanent,
          nm, pc, idx, port, forward_port, zone, fw_settings, tmp_zone,
          tmp_settings, changed, changed_zones, objs, result, err,
          log, committed, passNo, passKind, snap0, snapP, result1, log1>>

----------------------------------------------------------------------------
\* Bounds of the model

\* Largest total number of rules (over the five categories) of a DesiredState.
MaxRules == 2
\* Largest number of ';'-separated fields of a forward_port item.
MaxFields == 5
\* Largest number of '/'-separated fields of a port item.
MaxParts == 3

----------------------------------------------------------------------------
\* Strings

None == <<"None">>

Str_8t == <<"8", "/", "t">>
Str_8slash == <<"8", "/">>
Str_8 == <<"8">>
Str_e == <<"e">>
\* "8/t;;" : no interface, no destination
Str_fwd3 == <<"8", "/", "t", ";", ";">>
\* "e;8/t;9;" : interface e, destination port 9
Str_fwd4 == <<"e", ";", "8", "/", "t", ";", "9", ";">>

\* str.split(sep) of Python: the fields between the separators, empty ones kept
Split(s, sep) ==
    LET RECURSIVE F(_, _, _)
        F(i, cur, acc) ==
            IF i > Len(s) THEN Append(acc, cur)
            ELSE IF s[i] = sep THEN F(i + 1, <<>>, Append(acc, cur))
            ELSE F(i + 1, Append(cur, s[i]), acc)
    IN F(1, <<>>, <<>>)

\* sep.join(fields)
Join(fields, sep) ==
    LET RECURSIVE J(_)
        J(i) == IF i > Len(fields) THEN <<>>
                ELSE IF i = Len(fields) THEN fields[i]
                ELSE fields[i] \o <<sep>> \o J(i + 1)
    IN J(1)

----------------------------------------------------------------------------
\* RuleSet Normalizer

\* a normalizer that leaves the empty field as it is
EmptyToNone_Keeps(f) == f

\* `_to_port == ""` / `_to_addr == ""` become None
EmptyToNone(f) == IF f = <<>> THEN None ELSE f

\* how many fields make a forward_port item with an explicit interface
FieldsWithInterface == 4
\* how many fields make a forward_port item without interface
FieldsWithoutInterface == 3

\* the interface of an accepted forward_port item
ForwardInterface(args) ==
    IF Len(args) = FieldsWithInterface THEN args[1] ELSE <<>>

\* parse_forward_port(module, item): err is "ok", "MalformedRule" (fail_json)
\* or "ValueError" (the tuple unpacking of __port.split("/") raises).
parse_forward_port(item) ==
    LET args == Split(item, ";")
        bad(e) == [err |-> e, val |-> <<>>]
    IN IF Len(args) \notin {FieldsWithInterface, FieldsWithoutInterface}
       THEN bad("MalformedRule")
       ELSE LET off == Len(args) - FieldsWithoutInterface
                pp == Split(args[off + 1], "/")
            IN IF Len(pp) # 2 THEN bad("ValueError")
               ELSE [err |-> "ok",
                     val |-> <<ForwardInterface(args), pp[1], pp[2],
                               EmptyToNone(args[off + 2]),
                               EmptyToNone(args[off + 3])>>]

\* the loop of main() over module.params["port"]: `_protocol is None` never
\* holds after a two-way unpacking, so the only failure is the ValueError.
parse_port(port_proto) ==
    LET pp == Split(port_proto, "/")
    IN IF Len(pp) # 2 THEN [err |-> "ValueError", val |-> <<>>]
       ELSE [err |-> "ok", val |-> <<pp[1], pp[2]>>]

\* the first failure of a list of parse results, "ok" if none
RECURSIVE FirstErr(_)
FirstErr(rs) ==
    IF rs = <<>> THEN "ok"
    ELSE IF Head(rs).err # "ok" THEN Head(rs).err
    ELSE FirstErr(Tail(rs))

\* the port and forward_port lists as the normalizer parses them
ParsePorts(items) == [i \in DOMAIN items |-> parse_port(items[i])]
ParseForwardPorts(items) ==
    [i \in DOMAIN items |-> parse_forward_port(items[i])]

----------------------------------------------------------------------------
\* firewalld as the module sees it

Zones == {"public", "trusted", "external"}
Interfaces == {Str_e}
\* module.params["zone"] is None
NoZone == "<none>"
\* the protocols and the ports firewalld accepts ("t" stands for tcp)
DaemonProtocols == {<<"t">>}
DaemonPorts == {<<"8">>, <<"9">>}
DaemonAccepts(p, proto) == p \in DaemonPorts /\ proto \in DaemonProtocols

trusted_zone == "trusted"
external_zone == "external"

Kinds == {"services", "ports", "forward_ports", "interfaces"}
EmptySettings ==
    [services |-> {}, ports |-> {}, forward_ports |-> {}, interfaces |-> {}]

\* the runtime calls of firewalld take "" for the default zone
RtZone(z) == IF z = "" THEN defaultZone ELSE z

\* The part of the state one statement of main() reads and writes.
Cur ==
    [runtime |-> runtime, ifZone |-> ifZone, nm |-> nm, objs |-> objs,
     changed |-> changed, changed_zones |-> changed_zones, log |-> log]

Store(m) ==
    /\ runtime' = m.runtime
    /\ ifZone' = m.ifZone
    /\ nm' = m.nm
    /\ objs' = m.objs
    /\ changed' = m.changed
    /\ changed_zones' = m.changed_zones
    /\ log' = m.log

\* one entry of the call history: which call, on which zone (or settings
\* object), by which rule (phase and index in its list)
Ev(layer, op, kind, z, o) ==
    [layer |-> layer, op |-> op, kind |-> kind, zone |-> z, obj |-> o,
     rule |-> <<pc, idx>>]

Logged(m, e) == [m EXCEPT !.log = Append(@, e)]

\* the flag left as it is
SetChanged_Skipped(m) == m

\* `changed = True`
SetChanged(m) == [m EXCEPT !.changed = TRUE]

\* `changed_zones[key] = settings`
Register(m, key, o) ==
    Logged([m EXCEPT !.changed_zones = (key :> o) @@ @],
           Ev("changeset", "register", "zone", key, o))

\* fw.query<Kind>(zone, item), fw.add<Kind>(...), fw.remove<Kind>(...)
RtHas(m, kind, z, item) == item \in m.runtime[RtZone(z)][kind]
RtQuery(m, kind, z) == Logged(m, Ev("rt", "query", kind, z, 0))
RtAdd(m, kind, z, item) ==
    Logged([m EXCEPT !.runtime[RtZone(z)][kind] = @ \cup {item}],
           Ev("rt", "add", kind, z, 0))
\* a removal that reports success and removes nothing
RtRemove_Keeps(m, kind, z, item) ==
    Logged(m, Ev("rt", "remove", kind, z, 0))
RtRemove(m, kind, z, item) ==
    Logged([m EXCEPT !.runtime[RtZone(z)][kind] = @ \ {item}],
           Ev("rt", "remove", kind, z, 0))

\* fw.queryInterface / changeZoneOfInterface / removeInterface /
\* getZoneOfInterface: an interface is in one runtime zone or in none ("")
RtHasInterface(m, z, i) == m.ifZone[i] = RtZone(z)
RtChangeZone(m, z, i) ==
    Logged([m EXCEPT !.ifZone[i] = RtZone(z)],
           Ev("rt", "change", "interfaces", z, 0))
RtRemoveInterface(m, z, i) ==
    Logged([m EXCEPT !.ifZone[i] = ""],
           Ev("rt", "remove", "interfaces", z, 0))

\* a settings query answered from the runtime layer of the zone
StHas_FromRuntime(m, o, kind, item) ==
    IF kind = "interfaces" THEN m.ifZone[item] = m.objs[o].zone
    ELSE item \in m.runtime[m.objs[o].zone][kind]

\* settings.query<Kind>(item), settings.add<Kind>(item), settings.remove...
\* on the settings object number o (a local copy until it is committed)
StHas(m, o, kind, item) == item \in m.objs[o].s[kind]
StQuery(m, o, kind) == Logged(m, Ev("perm", "query", kind, m.objs[o].zone, o))
StAdd(m, o, kind, item) ==
    Logged([m EXCEPT !.objs[o].s[kind] = @ \cup {item}],
           Ev("perm", "add", kind, m.objs[o].zone, o))
StRemove(m, o, kind, item) ==
    Logged([m EXCEPT !.objs[o].s[kind] = @ \ {item}],
           Ev("perm", "remove", kind, m.objs[o].zone, o))

\* fw.config().getZoneByName(z).getSettings(): a fresh copy of the
\* permanent settings of z; its number is Len(objs) + 1
GetSettings(m, z) ==
    Logged([m EXCEPT !.objs = Append(@, [zone |-> z, s |-> permanent[z]])],
           Ev("config", "getSettings", "zone", z, Len(m.objs) + 1))

\* the settings fetched anew whatever changed_zones holds
SettingsFor_Fresh(m, z) ==
    [m |-> GetSettings(m, z), o |-> Len(m.objs) + 1]

\* `if _zone in changed_zones: ... = changed_zones[_zone]
\*  else: ... = _fw_zone.getSettings()`
SettingsFor(m, z) ==
    IF z \in DOMAIN m.changed_zones
    THEN [m |-> m, o |-> m.changed_zones[z]]
    ELSE [m |-> GetSettings(m, z), o |-> Len(m.objs) + 1]

----------------------------------------------------------------------------
\* Dual-Layer Reconciler

\* `fw.removeService(zone, item)` is not followed by `changed = True`;
\* the removals of the other categories are.
RuntimeRemovalMarksChanged(kind) == kind # "services"

\* The shape shared by the service, port and forward_port loops: z is the
\* zone of the runtime calls, o the settings object, key the key under which
\* o is put into changed_zones.
Reconcile(m, kind, z, key, o, item) ==
    IF params.state = "enabled"
    THEN LET m1 == RtQuery(m, kind, z)
             m2 == IF ~RtHas(m1, kind, z, item)
                   THEN SetChanged(RtAdd(m1, kind, z, item)) ELSE m1
             m3 == StQuery(m2, o, kind)
         IN IF ~StHas(m3, o, kind, item)
            THEN Register(SetChanged(StAdd(m3, o, kind, item)), key, o)
            ELSE m3
    ELSE LET m1 == RtQuery(m, kind, z)
             rm == RtRemove(m1, kind, z, item)
             m2 == IF RtHas(m1, kind, z, item)
                   THEN (IF RuntimeRemovalMarksChanged(kind)
                         THEN SetChanged(rm) ELSE rm)
                   ELSE m1
             m3 == StQuery(m2, o, kind)
         IN IF StHas(m3, o, kind, item)
            THEN Register(SetChanged(StRemove(m3, o, kind, item)), key, o)
            ELSE m3

----------------------------------------------------------------------------
\* Interface Fast-Path

\* try_set_zone_of_interface(_zone, interface).  nm.active stands for
\* HAS_FIREWALLD_NM and nm_is_imported(); raises says whether
\* nm_get_connection_of_interface raises (swallowed: the result is False).
try_set_zone_of_interface(m, z, i, raises) ==
    IF ~m.nm.active THEN [ok |-> FALSE, m |-> m]
    ELSE LET m1 == Logged(m, Ev("nm", IF raises THEN "lookupRaised"
                                               ELSE "lookup",
                                "interfaces", z, 0))
         IN IF raises \/ i \notin m.nm.conns
            THEN [ok |-> FALSE, m |-> m1]
            ELSE [ok |-> TRUE,
                  m |-> Logged([m1 EXCEPT !.nm.zoneOf[i] = z],
                               Ev("nm", "set", "interfaces", z, 0))]

\* the else branches of the trust and masq loops
InterfaceDaemonPath(m, z, o, i) ==
    IF params.state = "enabled"
    THEN LET m1 == RtQuery(m, "interfaces", z)
             m2 == IF ~RtHasInterface(m1, z, i)
                   THEN SetChanged(RtChangeZone(m1, z, i)) ELSE m1
             m3 == StQuery(m2, o, "interfaces")
         IN IF ~StHas(m3, o, "interfaces", i)
            THEN Register(SetChanged(StAdd(m3, o, "interfaces", i)), z, o)
            ELSE m3
    ELSE LET m1 == RtQuery(m, "interfaces", z)
             m2 == IF RtHasInterface(m1, z, i)
                   THEN SetChanged(RtRemoveInterface(m1, z, i)) ELSE m1
             m3 == StQuery(m2, o, "interfaces")
         IN IF StHas(m3, o, "interfaces", i)
            THEN Register(SetChanged(StRemove(m3, o, "interfaces", i)), z, o)
            ELSE m3

\* the daemon path taken whatever the fast path answered
TakesDaemonPath_Always(fast) == TRUE

\* whether the daemon path is taken after the fast path answered `fast`
TakesDaemonPath(fast) == ~fast

\* whether a successful fast path sets `changed = True` (enabled only)
FastPathMarksChanged == params.state = "enabled"

\* whether the pass exits at once after a successful fast path
FastPathExits == params.state = "disabled" /\ params.check_mode

\* the zone handed to the fast path
FastPathZone(z) == IF params.state = "enabled" THEN z ELSE ""

\* one item of the trust or masq loop: [m, fast]
InterfaceRule(m, z, o, i, raises) ==
    LET t == try_set_zone_of_interface(m, FastPathZone(z), i, raises)
    IN IF TakesDaemonPath(t.ok)
       THEN [m |-> InterfaceDaemonPath(t.m, z, o, i), fast |-> t.ok]
       ELSE [m |-> IF FastPathMarksChanged THEN SetChanged(t.m) ELSE t.m,
             fast |-> t.ok]

----------------------------------------------------------------------------
\* main(): control

daemonZones == <<rtZones, permZones, defaultZone>>
history == <<passNo, passKind, snap0, snapP, result1, log1>>
machine == <<runtime, ifZone, nm, objs, changed, changed_zones, log>>

PhaseOrder == <<"service", "port", "trust", "masq", "forward_port">>

RuleList(phase) ==
    CASE phase = "service" -> params.service
      [] phase = "port" -> port
      [] phase = "trust" -> params.trust
      [] phase = "masq" -> params.masq
      [] phase = "forward_port" -> forward_port

\* `if len(trust) > 0:` and `if len(masq) > 0:` open with a block that
\* picks the zone and the settings of the whole loop
Entry(phase) ==
    IF phase = "trust" THEN "trust_setup"
    ELSE IF phase = "masq" THEN "masq_setup" ELSE phase

RECURSIVE FirstPhaseFrom(_)
FirstPhaseFrom(k) ==
    IF k > Len(PhaseOrder) THEN "apply"
    ELSE IF RuleList(PhaseOrder[k]) # <<>> THEN Entry(PhaseOrder[k])
    ELSE FirstPhaseFrom(k + 1)

PhaseNo(phase) == CHOOSE k \in DOMAIN PhaseOrder : PhaseOrder[k] = phase

\* the loop goes to its next item, or the next non-empty loop begins
StepOn(phase) ==
    IF idx < Len(RuleList(phase))
    THEN pc' = phase /\ idx' = idx + 1
    ELSE pc' = FirstPhaseFrom(PhaseNo(phase) + 1) /\ idx' = 1

\* module.fail_json(...), or an uncaught exception
Fail(kind) ==
    /\ pc' = "failed"
    /\ err' = kind
    /\ UNCHANGED <<idx, result>>

\* module.exit_json(changed=c)
Exit(c) ==
    /\ pc' = "done"
    /\ result' = c
    /\ UNCHANGED <<idx, err>>

\* lines 240-251: the port and forward_port items are parsed, before
\* FirewallClient() is made
Normalize ==
    /\ pc = "start"
    /\ LET ps == ParsePorts(params.port)
           fs == ParseForwardPorts(params.forward_port)
       IN IF FirstErr(ps) # "ok"
          THEN Fail(FirstErr(ps)) /\ UNCHANGED <<port, forward_port>>
          ELSE IF FirstErr(fs) # "ok"
          THEN /\ Fail(FirstErr(fs))
               /\ port' = [i \in DOMAIN ps |-> ps[i].val]
               /\ UNCHANGED forward_port
          ELSE /\ port' = [i \in DOMAIN ps |-> ps[i].val]
               /\ forward_port' = [i \in DOMAIN fs |-> fs[i].val]
               /\ pc' = "connect"
               /\ UNCHANGED <<idx, result, err>>
    /\ UNCHANGED <<params, daemonZones, permanent, machine, zone, fw_settings,
                   tmp_zone, tmp_settings, committed, history>>

\* the permanent zone names left unchecked
ZoneInPermanent_Unchecked(z) == TRUE

\* whether the explicitly given zone passes `zone in fw.getZones()` and
\* `zone in fw.config().getZoneNames()`
ZoneInRuntime(z) == z \in rtZones
ZoneInPermanent(z) == z \in permZones

\* lines 267-281: default zone, check of the given zone, fetch of the
\* settings of the nominal zone
Connect ==
    /\ pc = "connect"
    /\ LET m0 == Logged(Cur, Ev("rt", "getDefaultZone", "zone", "", 0))
           z == IF params.zone # NoZone THEN params.zone ELSE defaultZone
           m1 == IF params.zone # NoZone
                 THEN Logged(m0, Ev("rt", "getZones", "zone", "", 0)) ELSE m0
           m2 == IF params.zone # NoZone
                 THEN Logged(m1, Ev("config", "getZoneNames", "zone", "", 0))
                 ELSE m0
           m3 == Logged(m2, Ev("config", "getZoneByName", "zone", z, 0))
       IN IF params.zone # NoZone /\ ~ZoneInRuntime(params.zone)
          THEN Fail("UnknownZone") /\ Store(m1)
               /\ UNCHANGED <<zone, fw_settings>>
          ELSE IF params.zone # NoZone /\ ~ZoneInPermanent(params.zone)
          THEN Fail("UnknownZone") /\ Store(m2)
               /\ UNCHANGED <<zone, fw_settings>>
          ELSE IF z \notin permZones
          THEN Fail("DaemonFault") /\ Store(m3)
               /\ UNCHANGED <<zone, fw_settings>>
          ELSE /\ Store([GetSettings(m3, z) EXCEPT
                            !.changed = FALSE,
                            !.changed_zones = <<>>])
               /\ zone' = z
               /\ fw_settings' = Len(m3.objs) + 1
               /\ pc' = FirstPhaseFrom(1)
               /\ idx' = 1
               /\ UNCHANGED <<result, err>>
    /\ UNCHANGED <<params, daemonZones, permanent, port, forward_port,
                   tmp_zone, tmp_settings, committed, history>>

\* lines 284-299
ServiceRule ==
    /\ pc = "service"
    /\ Store(Reconcile(Cur, "services", zone, zone, fw_settings,
                       params.service[idx]))
    /\ StepOn("service")
    /\ UNCHANGED <<params, daemonZones, permanent, port, forward_port, zone,
                   fw_settings, tmp_zone, tmp_settings, result, err,
                   committed, history>>

\* lines 302-318; firewalld refuses a protocol it does not know
PortRule ==
    /\ pc = "port"
    /\ IF ~DaemonAccepts(port[idx][1], port[idx][2])
       THEN Fail("DaemonFault") /\ Store(RtQuery(Cur, "ports", zone))
       ELSE /\ Store(Reconcile(Cur, "ports", zone, zone, fw_settings,
                               port[idx]))
            /\ StepOn("port")
            /\ UNCHANGED <<result, err>>
    /\ UNCHANGED <<params, daemonZones, permanent, port, forward_port, zone,
                   fw_settings, tmp_zone, tmp_settings, committed, history>>

\* the trust loop working on the nominal zone
TrustZone_Nominal == zone

\* the zone of the trust loop and of the masq loop
TrustZone == IF zone # trusted_zone THEN trusted_zone ELSE zone
MasqZone == IF zone # external_zone THEN external_zone ELSE zone

\* lines 321-332 and 360-371: `_zone`, `_fw_zone`, `_fw_settings` of the loop
InterfaceSetup(z, next) ==
    IF zone # z
    THEN LET m1 == Logged(Cur, Ev("config", "getZoneByName", "zone", z, 0))
             sf == SettingsFor(m1, z)
         IN IF z \notin permZones
            THEN Fail("DaemonFault") /\ Store(m1)
                 /\ UNCHANGED <<tmp_zone, tmp_settings>>
            ELSE /\ Store(sf.m)
                 /\ tmp_zone' = z
                 /\ tmp_settings' = sf.o
                 /\ pc' = next
                 /\ UNCHANGED <<idx, result, err>>
    ELSE /\ tmp_zone' = zone
         /\ tmp_settings' = fw_settings
         /\ pc' = next
         /\ UNCHANGED <<idx, result, err, machine>>

TrustSetup ==
    /\ pc = "trust_setup"
    /\ InterfaceSetup(TrustZone, "trust")
    /\ UNCHANGED <<params, daemonZones, permanent, port, forward_port, zone,
                   fw_settings, committed, history>>

MasqSetup ==
    /\ pc = "masq_setup"
    /\ InterfaceSetup(MasqZone, "masq")
    /\ UNCHANGED <<params, daemonZones, permanent, port, forward_port, zone,
                   fw_settings, committed, history>>

\* lines 334-357 and 373-396: one item of the trust or the masq loop
InterfaceStep(phase, item) ==
    \E raises \in BOOLEAN :
        LET r == InterfaceRule(Cur, tmp_zone, tmp_settings, item, raises)
        IN IF TakesDaemonPath(r.fast) /\ RtZone(tmp_zone) \notin rtZones
           THEN Fail("DaemonFault")
                /\ Store(RtQuery(Cur, "interfaces", tmp_zone))
           ELSE IF r.fast /\ FastPathExits
           THEN Exit(TRUE) /\ Store(r.m)
           ELSE Store(r.m) /\ StepOn(phase) /\ UNCHANGED <<result, err>>

TrustRule ==
    /\ pc = "trust"
    /\ InterfaceStep("trust", params.trust[idx])
    /\ UNCHANGED <<params, daemonZones, permanent, port, forward_port, zone,
                   fw_settings, tmp_zone, tmp_settings, committed, history>>

MasqRule ==
    /\ pc = "masq"
    /\ InterfaceStep("masq", params.masq[idx])
    /\ UNCHANGED <<params, daemonZones, permanent, port, forward_port, zone,
                   fw_settings, tmp_zone, tmp_settings, committed, history>>

\* fw.getZoneOfInterface(_interface): "" when no zone owns it
ZoneOfInterface(m, i) == IF i \in DOMAIN m.ifZone THEN m.ifZone[i] ELSE ""

\* `if _zone != "" and _zone != zone:` the rule has settings of its own
ForwardHasOwnSettings(z) == z # "" /\ z # zone

\* the key under which the settings of a forward_port rule are registered
ForwardKey(z) == z

\* lines 400-442: one item of the forward_port loop
ForwardRule ==
    /\ pc = "forward_port"
    /\ LET f == forward_port[idx]
           item == <<f[2], f[3], f[4], f[5]>>
           m1 == IF f[1] # <<>>
                 THEN Logged(Cur, Ev("rt", "getZoneOfInterface", "interfaces",
                                     "", 0))
                 ELSE Cur
           z == IF f[1] # <<>> THEN ZoneOfInterface(m1, f[1]) ELSE zone
           own == ForwardHasOwnSettings(z)
           m2 == IF own
                 THEN Logged(m1, Ev("config", "getZoneByName", "zone", z, 0))
                 ELSE m1
           sf == IF own /\ z \in permZones THEN SettingsFor(m2, z)
                 ELSE [m |-> m2, o |-> fw_settings]
       IN IF own /\ z \notin permZones
          THEN Fail("DaemonFault") /\ Store(m2)
          ELSE IF \/ ~DaemonAccepts(f[2], f[3])
                  \/ f[4] \notin DaemonPorts \cup {None}
                  \/ RtZone(z) \notin rtZones
          THEN Fail("DaemonFault")
               /\ Store(RtQuery(sf.m, "forward_ports", z))
          ELSE /\ Store(Reconcile(sf.m, "forward_ports", z, ForwardKey(z),
                                  sf.o, item))
               /\ StepOn("forward_port")
               /\ UNCHANGED <<result, err>>
    /\ UNCHANGED <<params, daemonZones, permanent, port, forward_port, zone,
                   fw_settings, tmp_zone, tmp_settings, committed, history>>

----------------------------------------------------------------------------
\* Batch Committer

\* the keys of changed_zones the loop of line 446 has not reached yet
Uncommitted == DOMAIN changed_zones \ {committed[i] : i \in DOMAIN committed}

\* an update that keeps what somebody else put into the zone meanwhile
CommitZone_Merges ==
    /\ pc = "apply"
    /\ changed
    /\ \E k \in Uncommitted \cap permZones :
        /\ Store(Logged(Logged(Cur,
                   Ev("config", "getZoneByName", "zone", k, 0)),
                   Ev("config", "update", "zone", k, changed_zones[k])))
        /\ permanent' = [permanent EXCEPT
                            ![k] = [objs[changed_zones[k]].s EXCEPT
                                      !.services =
                                        @ \cup (permanent[k].services
                                                  \cap {"ssh"})]]
        /\ committed' = Append(committed, k)
    /\ UNCHANGED <<params, daemonZones, port, forward_port, zone,
                   fw_settings, tmp_zone, tmp_settings, history, pc, idx,
                   result, err>>

\* lines 446-448, one turn of the loop: the settings object registered
\* under k replaces the permanent settings of zone k.  The order of the
\* keys of a dict is left open.
CommitZone ==
    /\ pc = "apply"
    /\ changed
    /\ \E k \in Uncommitted :
        LET m1 == Logged(Cur, Ev("config", "getZoneByName", "zone", k, 0))
            m2 == Logged(m1, Ev("config", "update", "zone", k,
                                changed_zones[k]))
        IN IF k \notin permZones
           THEN Fail("DaemonFault") /\ Store(m1)
                /\ UNCHANGED <<permanent, committed>>
           ELSE /\ Store(m2)
                /\ permanent' = [permanent EXCEPT
                                    ![k] = objs[changed_zones[k]].s]
                /\ committed' = Append(committed, k)
                /\ UNCHANGED <<pc, idx, result, err>>
    /\ UNCHANGED <<params, daemonZones, port, forward_port, zone,
                   fw_settings, tmp_zone, tmp_settings, history>>

\* a fault of the update of zone k that the commit loop survives
CommitFault_Continues ==
    /\ pc = "apply"
    /\ changed
    /\ \E k \in Uncommitted \cap permZones :
        /\ Store(Logged(Logged(Cur,
                   Ev("config", "getZoneByName", "zone", k, 0)),
                   Ev("config", "updateFault", "zone", k, changed_zones[k])))
        /\ committed' = Append(committed, k)
    /\ UNCHANGED <<params, daemonZones, permanent, port, forward_port, zone,
                   fw_settings, tmp_zone, tmp_settings, history, pc, idx,
                   result, err>>

\* firewalld reports a fault for the update of zone k: exception_handler
\* ends the pass (lines 259-262)
CommitFault ==
    /\ pc = "apply"
    /\ changed
    /\ \E k \in Uncommitted \cap permZones :
        /\ Fail("DaemonFault")
        /\ Store(Logged(Logged(Cur,
                   Ev("config", "getZoneByName", "zone", k, 0)),
                   Ev("config", "updateFault", "zone", k, changed_zones[k])))
    /\ UNCHANGED <<params, daemonZones, permanent, port, forward_port, zone,
                   fw_settings, tmp_zone, tmp_settings, committed, history>>

\* line 445 `if changed:`, then line 449 or line 454
Finish ==
    /\ pc = "apply"
    /\ changed => Uncommitted = {}
    /\ Exit(changed)
    /\ UNCHANGED <<params, daemonZones, permanent, machine, port,
                   forward_port, zone, fw_settings, tmp_zone, tmp_settings,
                   committed, history>>

----------------------------------------------------------------------------
\* Two invocations in a row

Layers == [runtime |-> runtime, ifZone |-> ifZone, permanent |-> permanent]

RuleCount(rules) ==
    Len(rules.service) + Len(rules.port) + Len(rules.trust) + Len(rules.masq)
        + Len(rules.forward_port)

\* After a successful first pass the caller runs the module again, with the
\* same parameters ("same") or with state flipped to disabled ("flip").
\* The second pass is followed for fewer than MaxRules rules.
Rerun ==
    /\ pc = "done"
    /\ passNo = 1
    /\ RuleCount(params) < MaxRules
    /\ \E kind \in {"same", "flip"} :
        /\ kind = "flip" => params.state = "enabled"
        /\ passKind' = kind
        /\ params' = IF kind = "flip"
                     THEN [params EXCEPT !.state = "disabled"] ELSE params
    /\ passNo' = 2
    /\ result1' = result
    /\ log1' = log
    /\ snapP' = Layers
    /\ pc' = "start"
    /\ idx' = 1
    /\ port' = <<>>
    /\ forward_port' = <<>>
    /\ zone' = ""
    /\ fw_settings' = 0
    /\ tmp_zone' = ""
    /\ tmp_settings' = 0
    /\ changed' = FALSE
    /\ changed_zones' = <<>>
    /\ objs' = <<>>
    /\ result' = FALSE
    /\ err' = "none"
    /\ log' = <<>>
    /\ committed' = <<>>
    /\ UNCHANGED <<daemonZones, runtime, ifZone, permanent, nm, snap0>>

----------------------------------------------------------------------------
\* Initial states

Seqs(S, n) == UNION {[1..k -> S] : k \in 0..n}

\* well-formed items
PortStrings == {Str_8t}
ForwardStrings == {Str_fwd3, Str_fwd4}

\* the rule lists of a DesiredState: at most MaxRules rules in all
RuleSets ==
    {r \in [service : Seqs({"http"}, MaxRules),
            port : Seqs(PortStrings, MaxRules),
            trust : Seqs(Interfaces, MaxRules),
            masq : Seqs(Interfaces, MaxRules),
            forward_port : Seqs(ForwardStrings, MaxRules)] :
        Len(r.service) + Len(r.port) + Len(r.trust) + Len(r.masq)
            + Len(r.forward_port) <= MaxRules}

\* port and forward_port items of any shape: up to MaxParts fields joined
\* by "/", up to MaxFields fields joined by ";"
RawPortStrings ==
    {Join(fs, "/") :
        fs \in UNION {[1..k -> {<<>>, Str_8, <<"t">>}] : k \in 1..MaxParts}}
RawForwardStrings ==
    {Join(fs, ";") :
        fs \in UNION {[1..k -> {<<>>, Str_e, Str_8t, <<"9">>, Str_8}] :
                        k \in 1..MaxFields}}
NoRules ==
    [service |-> <<>>, port |-> <<>>, trust |-> <<>>, masq |-> <<>>,
     forward_port |-> <<>>]
RawRuleSets ==
    {[NoRules EXCEPT !.port = <<s>>] : s \in RawPortStrings}
    \cup {[NoRules EXCEPT !.forward_port = <<s>>] : s \in RawForwardStrings}
    \cup {[NoRules EXCEPT !.service = <<"http">>, !.port = <<s>>] :
            s \in {Str_8, Str_8slash}}

\* What the layers hold before the first pass: a fact <<layer, zone, kind>>
\* says that the item of that kind is in that layer of that zone.
FactItem(kind) ==
    CASE kind = "services" -> "http"
      [] kind = "ports" -> <<<<"8">>, <<"t">>>>
      [] kind = "fwd3" -> <<<<"8">>, <<"t">>, None, None>>
      [] kind = "fwd4" -> <<<<"8">>, <<"t">>, <<"9">>, None>>
      [] kind = "interfaces" -> Str_e

FactKinds == {"services", "ports", "fwd3", "fwd4", "interfaces"}
FactUniverse ==
    {f \in {"rt", "perm"} \X Zones \X FactKinds :
        f[3] # "interfaces" => f[2] # external_zone}
FactSets ==
    {{}} \cup {{f} : f \in FactUniverse}
         \cup {{f, <<"perm", f[2], f[3]>>} : f \in FactUniverse}
         \cup {{f \in FactUniverse : f[2] = z} : z \in {"public", trusted_zone}}

\* whole layers of a zone, and the interface in the external zone
CoarseFactSets ==
    {{}} \cup {{f \in FactUniverse : f[2] = z} : z \in {"public", trusted_zone}}
         \cup {{f \in FactUniverse : f[1] = l /\ f[2] = z} :
                    l \in {"rt", "perm"}, z \in {"public", trusted_zone}}
         \cup {{<<"rt", external_zone, "interfaces">>}}

Holds(F, layer, z, kinds) ==
    {FactItem(k) : k \in {k \in kinds : <<layer, z, k>> \in F}}

\* a zone may be missing from the runtime list, the permanent list or both
MissingSets ==
    {{}} \cup {{x} : x \in {"rt", "perm"} \X {trusted_zone, external_zone}}
         \cup {{<<"rt", z>>, <<"perm", z>>} : z \in {trusted_zone, external_zone}}

InitWith(rules, st, z, check, active, conns, F, missing) ==
    /\ params = [service |-> rules.service, port |-> rules.port,
                 trust |-> rules.trust, masq |-> rules.masq,
                 forward_port |-> rules.forward_port,
                 zone |-> z, state |-> st, check_mode |-> check]
    /\ rtZones = {x \in Zones : <<"rt", x>> \notin missing}
    /\ permZones = {x \in Zones : <<"perm", x>> \notin missing}
    /\ defaultZone = "public"
    /\ \A f \in F : <<f[1], f[2]>> \notin missing
    /\ runtime = [x \in Zones |->
                    [services |-> Holds(F, "rt", x, {"services"}),
                     ports |-> Holds(F, "rt", x, {"ports"}),
                     forward_ports |-> Holds(F, "rt", x, {"fwd3", "fwd4"})]]
    /\ ifZone = [i \in Interfaces |->
                    IF \E x \in Zones : <<"rt", x, "interfaces">> \in F
                    THEN CHOOSE x \in Zones : <<"rt", x, "interfaces">> \in F
                    ELSE ""]
    /\ permanent = [x \in Zones |->
                    [services |-> Holds(F, "perm", x, {"services"}),
                     ports |-> Holds(F, "perm", x, {"ports"}),
                     forward_ports |-> Holds(F, "perm", x, {"fwd3", "fwd4"}),
                     interfaces |-> Holds(F, "perm", x, {"interfaces"})]]
    /\ nm = [active |-> active, conns |-> conns,
             zoneOf |-> [i \in Interfaces |-> ""]]
    /\ pc = "start"
    /\ idx = 1
    /\ port = <<>>
    /\ forward_port = <<>>
    /\ zone = ""
    /\ fw_settings = 0
    /\ tmp_zone = ""
    /\ tmp_settings = 0
    /\ changed = FALSE
    /\ changed_zones = <<>>
    /\ objs = <<>>
    /\ result = FALSE
    /\ err = "none"
    /\ log = <<>>
    /\ committed = <<>>
    /\ passNo = 1
    /\ passKind = "first"
    /\ snap0 = [runtime |-> runtime, ifZone |-> ifZone,
                permanent |-> permanent]
    /\ snapP = snap0
    /\ result1 = FALSE
    /\ log1 = <<>>

\* the kinds of fact that bear on the rules of a DesiredState
RelevantKinds(rules) ==
    (IF rules.service # <<>> THEN {"services"} ELSE {})
    \cup (IF rules.port # <<>> THEN {"ports"} ELSE {})
    \cup (IF rules.forward_port # <<>> THEN {"fwd3", "fwd4"} ELSE {})
    \cup (IF rules.trust # <<>> \/ rules.masq # <<>>
             \/ rules.forward_port # <<>>
          THEN {"interfaces"} ELSE {})

\* the facts of G that bear on the rules: their kind is a kind of the
\* rules, and a service or port fact is about the nominal zone nz
RelevantFacts(G, rules, nz) ==
    {f \in G : /\ f[3] \in RelevantKinds(rules)
               /\ f[3] \in {"services", "ports"} => f[2] = nz}

HasInterfaceRule(rules) == rules.trust # <<>> \/ rules.masq # <<>>

\* single facts for a single rule, whole layers for several rules
FactSetsFor(rules) == IF RuleCount(rules) <= 1 THEN FactSets ELSE CoarseFactSets

\* every zone exists in both layers; the contents of the layers vary.
\* NetworkManager matters to trust and masq rules only.
InitContents ==
    \E rules \in RuleSets, st \in {"enabled", "disabled"},
       z \in {NoZone, trusted_zone},
       check \in BOOLEAN, active \in BOOLEAN, conns \in SUBSET Interfaces :
        /\ ~active => conns = {}
        /\ check => conns # {}
        /\ active => HasInterfaceRule(rules)
        /\ \E F \in {RelevantFacts(G, rules,
                                   IF z = NoZone THEN "public" ELSE z) :
                        G \in FactSetsFor(rules)} :
            InitWith(rules, st, z, check, active, conns, F, {})

\* check mode, a connection of NetworkManager for the interface, and one
\* trust or masq rule after the service, port and forward_port rules
InitCheckMode ==
    \E r \in {x \in RuleSets : ~HasInterfaceRule(x)}, cat \in {"trust", "masq"}, z \in {NoZone, trusted_zone},
       G \in CoarseFactSets :
        LET rules == [r EXCEPT ![cat] = <<Str_e>>]
        IN InitWith(rules, "disabled", z, TRUE, TRUE, Interfaces,
                    RelevantFacts(G, rules,
                                  IF z = NoZone THEN "public" ELSE z), {})

\* a zone is missing from a layer
InitZones ==
    \E rules \in RuleSets, st \in {"enabled", "disabled"},
       z \in {NoZone, trusted_zone, external_zone},
       active \in BOOLEAN,
       missing \in MissingSets \ {{}} :
        /\ active => HasInterfaceRule(rules)
        /\ \E F \in {RelevantFacts(G, rules, "public") :
                        G \in {{}, {<<"rt", "public", "services">>,
                                    <<"perm", "public", "services">>}}} :
            InitWith(rules, st, z, FALSE, active,
                     IF active THEN Interfaces ELSE {}, F, missing)

\* port and forward_port items of any shape
InitStrings ==
    \E rules \in RawRuleSets :
        InitWith(rules, "enabled", NoZone, FALSE, FALSE, {}, {}, {})

Init == InitContents \/ InitCheckMode \/ InitZones \/ InitStrings

Next ==
    \/ Normalize
    \/ Connect
    \/ ServiceRule
    \/ PortRule
    \/ TrustSetup
    \/ TrustRule
    \/ MasqSetup
    \/ MasqRule
    \/ ForwardRule
    \/ CommitZone
    \/ CommitFault
    \/ Finish
    \/ Rerun

Spec == Init /\ [][Next]_vars

----------------------------------------------------------------------------
\* One pass with somebody else writing to the permanent configuration

\* Another client of firewalld adds the service "ssh" to the permanent
\* settings of a zone, once, while the pass is between its first fetch and
\* its exit.
ExternalService == "ssh"
ExternalChange ==
    /\ pc \notin {"start", "connect", "done", "failed"}
    /\ \A i \in DOMAIN log : log[i].layer # "external"
    /\ \E z \in permZones :
        /\ permanent' = [permanent EXCEPT
                            ![z].services = @ \cup {ExternalService}]
        /\ log' = Append(log, Ev("external", "add", "services", z, 0))
    /\ UNCHANGED <<params, daemonZones, runtime, ifZone, nm, pc, idx, port,
                   forward_port, zone, fw_settings, tmp_zone, tmp_settings,
                   changed, changed_zones, objs, result, err, committed,
                   history>>

\* one pass on the default zone, outside check mode
InitOnePass ==
    \E rules \in RuleSets, st \in {"enabled", "disabled"},
       G \in CoarseFactSets :
        InitWith(rules, st, NoZone, FALSE, FALSE, {},
                 RelevantFacts(G, rules, "public"), {})

NextWithExternal ==
    \/ Normalize
    \/ Connect
    \/ ServiceRule
    \/ PortRule
    \/ TrustSetup
    \/ TrustRule
    \/ MasqSetup
    \/ MasqRule
    \/ ForwardRule
    \/ CommitZone
    \/ CommitFault
    \/ Finish
    \/ ExternalChange

SpecWithExternal == InitOnePass /\ [][NextWithExternal]_vars

----------------------------------------------------------------------------
\* Reading the call history

IsRtMutation(e) == e.layer = "rt" /\ e.op \in {"add", "remove", "change"}
IsPermMutation(e) == e.layer = "perm" /\ e.op \in {"add", "remove"}
IsCommit(e) == e.layer = "config" /\ e.op = "update"
IsRegistration(e) == e.layer = "changeset"
IsFastPathSet(e) == e.layer = "nm" /\ e.op = "set"
IsMutation(e) == IsRtMutation(e) \/ IsPermMutation(e) \/ IsCommit(e)

Some(l, P(_)) == \E i \in DOMAIN l : P(l[i])
NoMutation(l) == ~Some(l, IsMutation)

Ended == pc \in {"done", "failed"}
\* the normalizer is done and has accepted every item
Normalized == pc # "start" /\ err \notin {"MalformedRule", "ValueError"}

ParamList(phase) ==
    CASE phase = "service" -> params.service
      [] phase = "port" -> params.port
      [] phase = "trust" -> params.trust
      [] phase = "masq" -> params.masq
      [] phase = "forward_port" -> params.forward_port

\* the rules of the DesiredState, named by loop and index
Rules ==
    UNION {{<<PhaseOrder[k], i>> : i \in DOMAIN ParamList(PhaseOrder[k])} :
            k \in DOMAIN PhaseOrder}

----------------------------------------------------------------------------
\* C1 (idempotence): when the same DesiredState is run twice in a row and
\* nothing else touches the daemon or NetworkManager in between, the
\* second run reports changed = false, and the first run reports
\* changed = true if it mutated anything.
SecondSameRunDone ==
    /\ passNo = 2 /\ passKind = "same" /\ pc = "done"
    /\ ~Some(log1, LAMBDA e : e.op = "lookupRaised")
    /\ ~Some(log, LAMBDA e : e.op = "lookupRaised")
C1_Idempotence ==
    SecondSameRunDone =>
        /\ result = FALSE
        /\ (Some(log1, IsMutation) \/ Some(log1, IsFastPathSet)) => result1 = TRUE

\* C2: a pass that finishes successfully reports changed = true exactly
\* when it issued a runtime mutation call or made a permanent commit.
C2_ChangedIffMutated ==
    pc = "done" =>
        (result = TRUE <=> (Some(log, IsRtMutation) \/ Some(log, IsCommit)))

\* the kind of settings a rule is about, and its item as the loops see it
RuleKind(t) ==
    CASE t[1] = "service" -> "services"
      [] t[1] = "port" -> "ports"
      [] t[1] = "forward_port" -> "forward_ports"
      [] OTHER -> "interfaces"

\* the zone of the first runtime query and of the first settings query a
\* rule made in the pass whose history is l
IsQueryOf(t, layer, e) == e.rule = t /\ e.layer = layer /\ e.op = "query"
FirstQuery(l, t, layer) ==
    l[CHOOSE i \in DOMAIN l :
        /\ IsQueryOf(t, layer, l[i])
        /\ \A j \in 1..(i - 1) : ~IsQueryOf(t, layer, l[j])]
HasQueries(l, t) ==
    /\ Some(l, LAMBDA e : IsQueryOf(t, "rt", e))
    /\ Some(l, LAMBDA e : IsQueryOf(t, "perm", e))
RtTarget(l, t) == RtZone(FirstQuery(l, t, "rt").zone)
PermTarget(l, t) == FirstQuery(l, t, "perm").zone

\* before the first pass the rule t was in neither layer of the zones the
\* first pass resolved it to (an interface: in no runtime zone at all)
AbsentBefore(t) ==
    LET rz == RtTarget(log1, t)
        pz == PermTarget(log1, t)
        f == forward_port[t[2]]
    IN CASE t[1] = "service" ->
              /\ params.service[t[2]] \notin snap0.runtime[rz].services
              /\ params.service[t[2]] \notin snap0.permanent[pz].services
         [] t[1] = "port" ->
              /\ port[t[2]] \notin snap0.runtime[rz].ports
              /\ port[t[2]] \notin snap0.permanent[pz].ports
         [] t[1] = "forward_port" ->
              /\ <<f[2], f[3], f[4], f[5]>> \notin snap0.runtime[rz].forward_ports
              /\ <<f[2], f[3], f[4], f[5]>> \notin snap0.permanent[pz].forward_ports
         [] OTHER ->
              /\ snap0.ifZone[ParamList(t[1])[t[2]]] = ""
              /\ ParamList(t[1])[t[2]] \notin snap0.permanent[pz].interfaces

SecondFlippedRunDone == passNo = 2 /\ passKind = "flip" /\ pc = "done"

\* C3 as claimed (round-trip law): enabled, then disabled, for the same
\* rules leaves both layers as they were, whatever the layers held.
C3_RoundTrip == SecondFlippedRunDone => Layers = snap0

\* C3 as amended: with the fast path not taken, if before the first pass
\* every rule was absent from both layers of the zone it targets (its
\* interface in no runtime zone), and every rule targets the same zone in
\* both passes, and both passes succeed, then enabled followed by disabled
\* leaves both layers of every zone as they were.
RoundTripCase ==
    /\ SecondFlippedRunDone
    /\ ~Some(log1, IsFastPathSet)
    /\ ~Some(log, IsFastPathSet)
    /\ \A t \in Rules :
        /\ HasQueries(log1, t)
        /\ HasQueries(log, t)
        /\ RtTarget(log1, t) = RtTarget(log, t)
        /\ PermTarget(log1, t) = PermTarget(log, t)
        /\ AbsentBefore(t)
C3_RoundTripFromAbsent == RoundTripCase => Layers = snap0
C3_Witness == RoundTripCase /\ Some(log1, IsRtMutation) /\ Some(log, IsCommit)

\* the rules that mutated settings of zone z in memory, the commits of z
PermMutators(z) ==
    {log[i].rule : i \in {j \in DOMAIN log :
                            IsPermMutation(log[j]) /\ log[j].zone = z}}
Commits(z) == {i \in DOMAIN log : IsCommit(log[i]) /\ log[i].zone = z}

\* the item of rule t is in the permanent settings of zone z
RuleInPermanent(t, z) ==
    LET f == forward_port[t[2]]
    IN CASE t[1] = "service" ->
              params.service[t[2]] \in permanent[z].services
         [] t[1] = "port" -> port[t[2]] \in permanent[z].ports
         [] t[1] = "forward_port" ->
              <<f[2], f[3], f[4], f[5]>> \in permanent[z].forward_ports
         [] OTHER -> ParamList(t[1])[t[2]] \in permanent[z].interfaces

\* C4: when two or more rules of a pass mutate the permanent settings of
\* one zone, the finished pass has issued exactly one commit for that zone
\* and the committed settings hold the mutations of all those rules.
C4_OneCommitPerZone ==
    pc = "done" =>
        \A z \in Zones :
            Cardinality(PermMutators(z)) >= 2 =>
                /\ Cardinality(Commits(z)) = 1
                /\ \A t \in PermMutators(z) :
                    RuleInPermanent(t, z) <=> params.state = "enabled"

\* C5: an explicitly given zone that is missing from the runtime zone list
\* or from the permanent zone names ends the pass, once the items are
\* normalized, with UnknownZone, and nothing has been mutated or committed.
GivenZoneUnknown ==
    /\ params.zone # NoZone
    /\ params.zone \notin rtZones \/ params.zone \notin permZones
C5_UnknownNominalZone ==
    (GivenZoneUnknown /\ Normalized /\ pc # "connect") =>
        /\ pc = "failed"
        /\ err = "UnknownZone"
        /\ NoMutation(log)
        /\ ~Some(log, IsRegistration)
        /\ ~Some(log, IsFastPathSet)
        /\ Layers = snapP
C5_Witness ==
    /\ pc = "failed"
    /\ err = "UnknownZone"
    /\ params.zone \in rtZones
    /\ params.zone \notin permZones
    /\ params.service # <<>>

\* C6: when the fast path succeeds for a trust or masq rule of a disabled
\* pass, that rule makes no runtime interface query or removal, no query
\* or mutation of the permanent interface list, and no registration in
\* changed_zones.
C6_FastPathDisabledSkipsDaemon ==
    \A i \in DOMAIN log :
        (IsFastPathSet(log[i]) /\ params.state = "disabled") =>
            /\ log[i].rule[1] \in {"trust", "masq"}
            /\ \A j \in DOMAIN log :
                log[j].rule = log[i].rule => log[j].layer = "nm"
C6_Witness ==
    /\ params.state = "disabled"
    /\ pc = "apply"
    /\ Some(log, LAMBDA e : IsFastPathSet(e) /\ e.rule[1] = "masq")
    /\ Some(log, IsRegistration)

\* C7: every runtime call, permanent mutation, enabled fast-path
\* reassignment and registration of a trust rule names the zone "trusted"
\* (the settings object is the one fetched for "trusted"), of a masq rule
\* the zone "external", whatever the nominal zone.
FixedZoneOf(e) ==
    IF e.rule[1] \in {"trust", "trust_setup"} THEN "trusted" ELSE "external"
NamesFixedZone(e) ==
    /\ e.zone = FixedZoneOf(e)
    /\ e.layer \in {"perm", "changeset"} => objs[e.obj].zone = FixedZoneOf(e)
C7_FixedZones ==
    \A i \in DOMAIN log :
        (/\ log[i].rule[1] \in {"trust", "trust_setup", "masq", "masq_setup"}
         /\ \/ log[i].layer \in {"rt", "perm", "config", "changeset"}
            \/ IsFastPathSet(log[i]) /\ params.state = "enabled")
        => NamesFixedZone(log[i])
C7_Witness ==
    /\ zone = "public"
    /\ Some(log, LAMBDA e : e.rule[1] = "trust" /\ IsRtMutation(e))
    /\ Some(log, LAMBDA e : e.rule[1] = "masq" /\ IsRegistration(e))

\* C8: a port item with no "/" or with nothing after the "/" makes the pass
\* fail in the normalizer, before any call to the daemon; an item such as
\* "8/t" is accepted as the pair (8, t).
MalformedPort(item) ==
    LET pp == Split(item, "/") IN Len(pp) = 1 \/ pp[Len(pp)] = <<>>
PlainPort(item) ==
    LET pp == Split(item, "/")
    IN Len(pp) = 2 /\ pp[1] # <<>> /\ pp[2] # <<>>
FieldCount(item) == Len(Split(item, ";"))
AcceptedForward(item) ==
    /\ FieldCount(item) \in {3, 4}
    /\ Len(Split(Split(item, ";")[FieldCount(item) - 2], "/")) = 2
C9_ForwardPortFields ==
    (pc # "start"
     /\ \A i \in DOMAIN params.port : Len(Split(params.port[i], "/")) = 2) =>
        \A i \in DOMAIN params.forward_port :
            LET item == params.forward_port[i]
                args == Split(item, ";")
                n == Len(args)
            IN /\ (n \notin {3, 4}
                   /\ \A j \in 1..(i - 1) :
                        AcceptedForward(params.forward_port[j]))
                  => pc = "failed" /\ err = "MalformedRule"
               /\ Normalized =>
                    /\ n \in {3, 4}
                    /\ forward_port[i][1] = IF n = 4 THEN args[1] ELSE <<>>
                    /\ forward_port[i][4] =
                        IF args[n - 1] = <<>> THEN None ELSE args[n - 1]
                    /\ forward_port[i][5] =
                        IF args[n] = <<>> THEN None ELSE args[n]
C9_Witness ==
    /\ Normalized
    /\ Len(params.forward_port) = 1
    /\ FieldCount(params.forward_port[1]) = 4
    /\ forward_port[1][1] = Str_e
    /\ forward_port[1][4] = None
    /\ forward_port[1][5] = <<"9">>

\* C10: the zone a rule targets (the default zone when none is given,
\* "trusted" for trust rules, "external" for masq rules) is checked against
\* both zone lists, and when it is missing from either the pass fails
\* before anything has been mutated.
NominalZone == IF params.zone = NoZone THEN defaultZone ELSE params.zone
EffectiveZones ==
    (IF params.service # <<>> \/ params.port # <<>>
        \/ params.forward_port # <<>> THEN {NominalZone} ELSE {})
    \cup (IF params.trust # <<>> THEN {trusted_zone} ELSE {})
    \cup (IF params.masq # <<>> THEN {external_zone} ELSE {})
C10_EffectiveZoneChecked ==
    (Normalized /\ Ended
     /\ \E z \in EffectiveZones : z \notin rtZones \/ z \notin permZones) =>
        /\ pc = "failed"
        /\ err \in {"UnknownZone", "DaemonFault"}
        /\ NoMutation(log)

\* C11: a forward_port rule whose interface is given and owned by no zone
\* falls back to the nominal zone: its runtime calls, its permanent
\* mutation and its key in changed_zones name the nominal zone, and the
\* empty zone name is never a key of changed_zones.
\* (ifZone is written by the trust and masq loops only, which run before
\* the forward_port loop, so it still is what the rule's lookup returned.)
UnownedForward(t) ==
    /\ t[1] = "forward_port"
    /\ t[2] \in DOMAIN forward_port
    /\ forward_port[t[2]][1] # <<>>
    /\ ZoneOfInterface(Cur, forward_port[t[2]][1]) = ""
C11_ForwardFallsBackToNominal ==
    /\ \A i \in DOMAIN log :
        (/\ UnownedForward(log[i].rule)
         /\ log[i].layer \in {"rt", "perm", "changeset"}
         /\ log[i].op # "getZoneOfInterface")
        => log[i].zone = zone
    /\ "" \notin DOMAIN changed_zones

\* C12: in one pass the permanent settings of a zone are fetched from the
\* daemon at most once and committed at most once, and no settings object
\* is committed under two different zone keys.
Fetches(z) ==
    {i \in DOMAIN log : log[i].op = "getSettings" /\ log[i].zone = z}
C12_FetchedAndCommittedOnce ==
    /\ \A z \in Zones :
        /\ Cardinality(Fetches(z)) <= 1
        /\ Cardinality(Commits(z)) <= 1
    /\ \A i, j \in DOMAIN log :
        (IsCommit(log[i]) /\ IsCommit(log[j]) /\ log[i].obj = log[j].obj)
        => log[i].zone = log[j].zone

\* C13: no in-memory edit of permanent settings is lost.  At every point of
\* a pass at most one settings object per zone has been mutated; a rule
\* that works on a zone after a mutation of it works on that same object;
\* the object committed for a zone is the one that holds every mutation of
\* that zone, and once committed the zone holds the rule of every mutator.
MutatedObjects(z) ==
    {log[i].obj : i \in {j \in DOMAIN log :
                            IsPermMutation(log[j]) /\ log[j].zone = z}}
C13_NoLostEdits ==
    /\ \A j \in DOMAIN log :
        (log[j].layer = "perm" \/ IsCommit(log[j])) =>
            \A i \in 1..(j - 1) :
                (IsPermMutation(log[i]) /\ log[i].zone = log[j].zone)
                => log[j].obj = log[i].obj
    /\ \A z \in Zones :
        /\ Cardinality(MutatedObjects(z)) <= 1
        /\ Commits(z) # {} =>
            \A t \in PermMutators(z) :
                RuleInPermanent(t, z) <=> params.state = "enabled"
C13_Witness ==
    /\ pc = "done"
    /\ \E z \in Zones \ {zone} :
        /\ Commits(z) # {}
        /\ \E t, u \in PermMutators(z) :
            t[1] \in {"trust", "masq"} /\ u[1] = "forward_port"

\* C14: when the fast path succeeds for a trust or masq rule of an enabled
\* pass, the rule still queries the permanent interface list of its zone,
\* and the interface is in the settings object it queried from then on
\* (added in memory when it was absent).
C14_FastPathEnabledExaminesPermanent ==
    \A i \in DOMAIN log :
        (IsFastPathSet(log[i]) /\ params.state = "enabled") =>
            \E j \in DOMAIN log :
                /\ log[j].rule = log[i].rule
                /\ log[j].layer = "perm"
                /\ log[j].op = "query"
                /\ log[j].kind = "interfaces"
                /\ ParamList(log[i].rule[1])[log[i].rule[2]]
                    \in objs[log[j].obj].s.interfaces

\* C15: with the fast path not taken, a rule issues a mutating call in a
\* layer exactly when that layer disagrees with the intent (enabled and
\* absent, disabled and present), whatever the other layer holds; and a
\* pass whose rules are all in the requested state in both layers issues
\* no add, remove or change call, makes no commit and reports
\* changed = false.
RulePhases == {"service", "port", "trust", "masq", "forward_port"}
NewEvents == SubSeq(log', Len(log) + 1, Len(log'))
CurrentItem ==
    CASE pc = "service" -> params.service[idx]
      [] pc = "port" -> port[idx]
      [] pc = "trust" -> params.trust[idx]
      [] pc = "masq" -> params.masq[idx]
      [] pc = "forward_port" ->
            <<forward_port[idx][2], forward_port[idx][3],
              forward_port[idx][4], forward_port[idx][5]>>
\* what the two layers held when the rule began: z is the zone of the
\* rule's runtime query, o the settings object of its settings query
RtBefore(kind, z, item) ==
    IF kind = "interfaces" THEN ifZone[item] = RtZone(z)
    ELSE item \in runtime[RtZone(z)][kind]
PermBefore(o, kind, item) ==
    IF o \in DOMAIN objs THEN item \in objs[o].s[kind]
    ELSE item \in permanent[objs'[o].zone][kind]
Disagrees(present) == present # (params.state = "enabled")
LayersDiffedIndependently ==
    (/\ pc \in RulePhases
     /\ pc' # "failed"
     /\ log' # log
     /\ ~Some(NewEvents, IsFastPathSet)) =>
        LET kind == RuleKind(<<pc, idx>>)
            new == NewEvents
            rq == CHOOSE e \in {new[i] : i \in DOMAIN new} :
                    e.layer = "rt" /\ e.op = "query"
            pq == CHOOSE e \in {new[i] : i \in DOMAIN new} :
                    e.layer = "perm" /\ e.op = "query"
        IN /\ Some(new, LAMBDA e : e.layer = "rt" /\ e.op = "query")
           /\ Some(new, LAMBDA e : e.layer = "perm" /\ e.op = "query")
           /\ Some(new, IsRtMutation)
                <=> Disagrees(RtBefore(kind, rq.zone, CurrentItem))
           /\ Some(new, IsPermMutation)
                <=> Disagrees(PermBefore(pq.obj, kind, CurrentItem))
\* every query of the pass found its layer in the requested state
QueryAgreed(i) ==
    LET e == log[i]
        t == e.rule
        item == IF t[1] = "forward_port"
                THEN <<forward_port[t[2]][2], forward_port[t[2]][3],
                       forward_port[t[2]][4], forward_port[t[2]][5]>>
                ELSE RuleList(t[1])[t[2]]
        present == IF e.layer = "perm"
                   THEN item \in snapP.permanent[e.zone][e.kind]
                   ELSE IF e.kind = "interfaces"
                   THEN snapP.ifZone[item] = RtZone(e.zone)
                   ELSE item \in snapP.runtime[RtZone(e.zone)][e.kind]
    IN (e.op = "query" /\ e.layer \in {"rt", "perm"}) => ~Disagrees(present)
AllInRequestedState ==
    /\ pc = "done"
    /\ ~Some(log, IsFastPathSet)
    /\ \A i \in DOMAIN log : QueryAgreed(i)
NothingToDo ==
    AllInRequestedState =>
        /\ NoMutation(log)
        /\ result = FALSE
        /\ Layers = snapP
C15_LayersDiffedIndependently ==
    [][LayersDiffedIndependently]_vars /\ []NothingToDo
C15_Witness ==
    /\ pc = "done"
    /\ ~Some(log, IsFastPathSet)
    /\ params.state = "disabled"
    /\ \E t \in Rules :
        /\ t[1] = "forward_port"
        /\ Some(log, LAMBDA e : e.rule = t /\ IsRtMutation(e))
        /\ Some(log, LAMBDA e : IsQueryOf(t, "perm", e))
        /\ ~Some(log, LAMBDA e : e.rule = t /\ IsPermMutation(e))

\* C16: when the commit of a zone fails, the pass is Failed at once: no
\* commit follows the failing one, the zones committed before it keep the
\* settings committed for them, and the failing step leaves the runtime
\* layer (every runtime mutation made earlier) as it is.
CommitFailedAt(i) ==
    \/ log[i].op = "updateFault"
    \/ /\ log[i].op = "getZoneByName"
       /\ log[i].rule[1] = "apply"
       /\ log[i].zone \notin permZones
CommitFailed == \E i \in DOMAIN log : CommitFailedAt(i)
AfterCommitFailure ==
    CommitFailed =>
        /\ pc = "failed"
        /\ CommitFailedAt(Len(log))
        /\ \A k \in {committed[i] : i \in DOMAIN committed} :
            permanent[k] = objs[changed_zones[k]].s
        /\ \A z \in Zones \ {committed[i] : i \in DOMAIN committed} :
            permanent[z] = snapP.permanent[z]
FailingStepUndoesNothing ==
    /\ pc = "failed" => FALSE
    /\ (pc = "apply" /\ pc' = "failed") =>
        /\ Layers' = Layers
        /\ committed' = committed
        /\ ~Some(NewEvents, IsMutation)
C16_CommitFailureIsFatal ==
    []AfterCommitFailure /\ [][FailingStepUndoesNothing]_vars
C16_Witness ==
    /\ CommitFailed
    /\ log[Len(log)].op = "updateFault"
    /\ committed # <<>>
    /\ Some(log, IsRtMutation)
    /\ Layers # snapP

\* C17: when somebody else changes the permanent settings of a zone after
\* the pass fetched them and before the pass commits that zone, the commit
\* is accepted all the same, the permanent settings of the zone are then
\* the settings object of the pass, the change of the other client is gone,
\* and a pass that finishes reports no error.
OverwrittenZone(z) ==
    \E j \in DOMAIN log :
        /\ log[j].layer = "external" /\ log[j].zone = z
        /\ \E k \in (j + 1)..Len(log) :
            /\ IsCommit(log[k]) /\ log[k].zone = z
            /\ \E i \in 1..(j - 1) :
                /\ log[i].op = "getSettings" /\ log[i].zone = z
                /\ log[i].obj = log[k].obj
C17_ExternalChangeOverwritten ==
    \A z \in Zones :
        OverwrittenZone(z) =>
            /\ permanent[z] = objs[changed_zones[z]].s
            /\ ExternalService \notin permanent[z].services
            /\ pc = "done" => err = "none"
C17_Witness ==
    /\ pc = "done"
    /\ result = TRUE
    /\ \E z \in Zones : OverwrittenZone(z)

\* C18: a pass that ends with a success result, in normal mode or in check
\* mode, has committed every zone whose settings it mutated in memory:
\* every key of changed_zones has been committed when the result is
\* reported.
C18_SuccessMeansCommitted ==
    pc = "done" =>
        /\ \A z \in Zones : PermMutators(z) # {} => Commits(z) # {}
        /\ \A k \in DOMAIN changed_zones :
            \E i \in DOMAIN committed : committed[i] = k

\* C19: after a successful pass in which the fast path was not taken, every
\* service, port and forward_port rule is in the runtime layer and in the
\* permanent layer of its target zone when the pass was enabled, in neither
\* when it was disabled; and no (zone, item) of these kinds that the
\* DesiredState does not name differs from what it was before the pass.
\* The target zone is the nominal zone, for a forward_port rule the zone
\* that owns its interface (the nominal zone when no zone owns it).
PlainRules == {t \in Rules : t[1] \in {"service", "port", "forward_port"}}
ItemOf(t) ==
    IF t[1] = "forward_port"
    THEN <<forward_port[t[2]][2], forward_port[t[2]][3],
           forward_port[t[2]][4], forward_port[t[2]][5]>>
    ELSE RuleList(t[1])[t[2]]
TargetOf(t) ==
    IF t[1] = "forward_port" /\ forward_port[t[2]][1] # <<>>
       /\ ZoneOfInterface(Cur, forward_port[t[2]][1]) # ""
    THEN ZoneOfInterface(Cur, forward_port[t[2]][1])
    ELSE zone
NamedByRules(z, kind, item) ==
    \E t \in PlainRules :
        RuleKind(t) = kind /\ ItemOf(t) = item /\ TargetOf(t) = z
PlainKinds == {"services", "ports", "forward_ports"}
C19_Postcondition ==
    (pc = "done" /\ ~Some(log, IsFastPathSet)) =>
        /\ \A t \in PlainRules :
            /\ ItemOf(t) \in runtime[TargetOf(t)][RuleKind(t)]
                <=> params.state = "enabled"
            /\ ItemOf(t) \in permanent[TargetOf(t)][RuleKind(t)]
                <=> params.state = "enabled"
        /\ \A z \in Zones, kind \in PlainKinds :
            /\ \A item \in runtime[z][kind] \cup snapP.runtime[z][kind] :
                ~NamedByRules(z, kind, item) =>
                    (item \in runtime[z][kind]
                        <=> item \in snapP.runtime[z][kind])
            /\ \A item \in permanent[z][kind] \cup snapP.permanent[z][kind] :
                ~NamedByRules(z, kind, item) =>
                    (item \in permanent[z][kind]
                        <=> item \in snapP.permanent[z][kind])

\* C20: at every point of a pass, when changed_zones is not empty the flag
\* changed is already true; so the test `if changed:` that guards the
\* commit loop never sends a pass to the exit with changed = false while a
\* zone is registered and waits for its commit.
C20_RegisteredImpliesChanged ==
    /\ changed_zones # <<>> => changed
    /\ Some(log, IsRegistration) => changed
    /\ (pc = "done" /\ result = FALSE) =>
        /\ changed_zones = <<>>
        /\ \A z \in Zones : PermMutators(z) = {}
C20_Witness ==
    /\ pc = "apply"
    /\ changed
    /\ Cardinality(DOMAIN changed_zones) >= 2
    /\ ~Some(log, IsRtMutation)

====
